---- MODULE Spec2Model ----
(***************************************************************************)
(* Model of StorageService (services/storageService.ts), the storage       *)
(* facade of the meal tracker: an IndexedDB object store keyed by the      *)
(* canonical date string, an in-memory fallback Map, and the facade        *)
(* methods init, saveMealRecords, loadMealRecords, deleteMealRecords,      *)
(* getAllDatesWithData, getAllMealData and setErrorCallback.               *)
(*                                                                         *)
(* Every facade method is an async function.  A call runs synchronously up *)
(* to its first suspension (an await of init(), or the IndexedDB request   *)
(* it has issued) and is resumed by the event that ends the suspension.    *)
(* A call is therefore a small process: pc = "opening" while the open      *)
(* request of init() is outstanding, "cont" when init() has resolved and   *)
(* the continuation after `await this.init()` is queued, "request" while   *)
(* the IndexedDB request / transaction is outstanding, "aborted" when the  *)
(* transaction ended with an event no handler is registered for.           *)
(*                                                                         *)
(* IndexedDB is the environment.  It answers an open request with success  *)
(* or error (or indexedDB.open throws), a request with success or error    *)
(* (or transaction() throws), and a transaction with complete, error or    *)
(* abort.  On the error event of a write transaction the handler reads     *)
(* transaction.error.name, which the environment sets to                   *)
(* QuotaExceededError or to something else.                                *)
(*                                                                         *)
(* DailyMealData.lastModified (Date.now()) is written but never read by    *)
(* the facade and is left out of the stored value.                         *)
(*                                                                         *)
(* Specifications: Spec (every call awaited, database empty or left by an  *)
(* earlier session), SpecConc (calls issued while others are pending),     *)
(* SpecPersisted (a database written by the earlier saveMealRecords),      *)
(* SpecEq (the same calls on a facade without and a facade with the        *)
(* database), SpecKeys (the key function and the DateKey codec of          *)
(* types.ts applied to valid calendar dates), SpecCalendar (the month      *)
(* buttons of the Calendar component), SpecLong (awaited calls, every      *)
(* settled call kept in a history), SpecPair (two saves issued together,   *)
(* then loads), SpecApp (the App component: date selection, meal edits,    *)
(* the load effect and the debounced save effect on top of the facade).    *)
(***************************************************************************)
EXTENDS Integers, Sequences, FiniteSets

\* ----------------------------------------------------------------- bounds
MaxCalls == 2
NumDates == 2
\* calls made to each of the two facades that are run side by side
MaxEqCalls == 3
\* clicks on the month buttons of the Calendar
MaxClicks == 2
\* awaited calls of a session whose settled calls are all remembered
MaxLongCalls == 3
\* calls of the session that issues two saves at once and then loads
MaxPairCalls == 4
\* date selections and meal edits the user makes in the App
MaxAppEvents == 3

\* ------------------------------------------------------------- data model
MealType ==
  {"MORNING_SNACK", "BREAKFAST", "LATE_MORNING_SNACK", "LUNCH",
   "AFTERNOON_SNACK", "DINNER", "EVENING_SNACK"}

\* image?: string -- <<>> is undefined, <<s>> is the string s
NoImage == <<>>
ImageOf(s) == <<s>>

Apple ==
  [id |-> "1", name |-> "apple", calories |-> 95, carbs |-> 25, protein |-> 1,
   fat |-> 0, sugar |-> 19, sodium |-> 2, cholesterol |-> 0]
Rice ==
  [id |-> "2", name |-> "rice", calories |-> 300, carbs |-> 65, protein |-> 6,
   fat |-> 1, sugar |-> 0, sodium |-> 5, cholesterol |-> 0]

MealRecord(t, items, image) == [type |-> t, items |-> items, image |-> image]

getEmptyMealRecords_NoDinner ==
  [t \in MealType \ {"DINNER"} |-> MealRecord(t, <<>>, NoImage)]
getEmptyMealRecords == [t \in MealType |-> MealRecord(t, <<>>, NoImage)]

\* MealsA is what an earlier session left in the object store; the other
\* three are the meals a caller passes to saveMealRecords
MealsA == [getEmptyMealRecords EXCEPT !["BREAKFAST"].items = <<Apple, Rice>>]
MealsB ==
  [getEmptyMealRecords EXCEPT !["BREAKFAST"].items = <<Rice, Apple>>,
                              !["EVENING_SNACK"].image = ImageOf("data:image/jpeg;base64,AAAA")]
MealsBlankImage == [getEmptyMealRecords EXCEPT !["LUNCH"].image = ImageOf("")]
InputMeals == {getEmptyMealRecords, MealsBlankImage, MealsB}
\* a photo and no items
MealsPhoto ==
  [getEmptyMealRecords EXCEPT !["DINNER"].image = ImageOf("data:image/png;base64,BBBB")]

TestDates ==
  << [year |-> 2024, month |-> 1, day |-> 15],
     [year |-> 2024, month |-> 1, day |-> 16],
     [year |-> 2024, month |-> 12, day |-> 1],
     [year |-> 2025, month |-> 1, day |-> 1] >>
Dates == {TestDates[i] : i \in 1..NumDates}
NoDate == [year |-> 0, month |-> 0, day |-> 0]

\* ------------------------------------------------------------ key strings
\* a string is modelled as the sequence of its characters
DigitChars == <<"0", "1", "2", "3", "4", "5", "6", "7", "8", "9">>

RECURSIVE NumToString(_)
NumToString(n) ==
  IF n < 10 THEN <<DigitChars[n + 1]>>
  ELSE NumToString(n \div 10) \o <<DigitChars[(n % 10) + 1]>>

padStart2(s) == IF Len(s) >= 2 THEN s ELSE <<"0">> \o s

dateToKey_Joined(date) ==
  NumToString(date.year) \o NumToString(date.month) \o NumToString(date.day)
dateToKey(date) ==
  NumToString(date.year) \o <<"-">> \o padStart2(NumToString(date.month))
     \o <<"-">> \o padStart2(NumToString(date.day))

\* code unit of the characters a key is made of ('-' is 45, '0'..'9' are 48..57)
CharCode(ch) == IF ch = "-" THEN 45 ELSE 47 + (CHOOSE i \in 1..10 : DigitChars[i] = ch)

\* a < b as strings: the order of IndexedDB keys, and of localeCompare on
\* strings made of digits and '-'
KeyLess(a, b) ==
  \/ /\ Len(a) < Len(b)
     /\ \A i \in 1..Len(a) : a[i] = b[i]
  \/ \E i \in 1..Len(a) :
       /\ i <= Len(b)
       /\ \A j \in 1..(i - 1) : a[j] = b[j]
       /\ CharCode(a[i]) < CharCode(b[i])

\* --------------------------------------------------------- real content
hasMealData_AnyImage(record) == Len(record.items) > 0 \/ record.image # NoImage
hasMealData(record) == Len(record.items) > 0 \/ (record.image # NoImage /\ record.image[1] # "")

hasAnyMealData(meals) == \E t \in DOMAIN meals : hasMealData(meals[t])

\* ------------------------------------------------------------------ state
VARIABLES
  supported,        \* typeof indexedDB !== 'undefined'
  db,               \* this.db !== null
  useFallback,      \* this.useFallback
  fallbackStorage,  \* this.fallbackStorage, a Map in insertion order
  idbStore,         \* the object store 'mealRecords' of MealTrackerDB
  errorCallback,    \* this.errorCallback is set
  pending,          \* the facade calls that have not settled, in issue order
  last,             \* the facade call that settled last
  ncalls,           \* number of facade calls issued
  twin,             \* the call that settled last on a second facade instance
  probe,            \* arguments and results of the date functions under test
  calendar,         \* the Calendar component: currentMonth and the clicks made
  app,              \* the App component: its state, refs and save timer
  log               \* the facade calls that have settled, in order (history)

vars == <<supported, db, useFallback, fallbackStorage, idbStore, errorCallback,
          pending, last, ncalls, twin, probe, calendar, app, log>>

\* the variables that are not the state of the StorageService
others == <<twin, probe, calendar, app, log>>

\* what a call remembers of the call that settled before it was issued
Brief(c) ==
  [op |-> c.op, date |-> c.date, meals |-> c.meals, outcome |-> c.outcome,
   hadEntry |-> c.hadEntry, prior |-> c.prior, clean |-> c.met = <<>>]

NoBrief ==
  [op |-> "none", date |-> NoDate, meals |-> getEmptyMealRecords,
   outcome |-> "none", hadEntry |-> FALSE, prior |-> getEmptyMealRecords,
   clean |-> TRUE]

NoCall ==
  [op |-> "none", date |-> NoDate, meals |-> getEmptyMealRecords, routed |-> FALSE,
   pc |-> "done", backend |-> "none", signal |-> "none", errName |-> "none",
   hadEntry |-> FALSE, prior |-> getEmptyMealRecords,
   lazy |-> FALSE, met |-> <<>>, notified |-> <<>>, delivered |-> <<>>,
   cbAtIssue |-> FALSE,
   outcome |-> "none", value |-> "undefined", error |-> "none",
   after |-> NoBrief]

NewCall(op, date, meals) ==
  [NoCall EXCEPT !.op = op, !.date = date, !.meals = meals, !.pc = "start",
                 !.outcome = "pending", !.cbAtIssue = errorCallback,
                 !.after = Brief(last)]

\* ------------------------------------------------- types.ts: the codec
\* A Date is modelled by its local calendar fields: what getFullYear(),
\* getMonth() (0 to 11) and getDate() return.
JsDate(fullYear, month, date) == [fullYear |-> fullYear, month |-> month, date |-> date]

IsLeapYear(y) == (y % 4 = 0 /\ y % 100 # 0) \/ y % 400 = 0

\* days of the month with index m (0 to 11) of year y
DaysInMonth(y, m) ==
  IF m = 1 THEN (IF IsLeapYear(y) THEN 29 ELSE 28)
  ELSE IF m \in {3, 5, 8, 10} THEN 30 ELSE 31

\* new Date(year, monthIndex, day) for a month index of 0 to 11 and a day of
\* 1 to 31: a year of 0 to 99 is taken as 1900 + year, and a day past the
\* end of the month runs over into the next month
NewDate(year, monthIndex, day) ==
  LET y == IF year >= 0 /\ year <= 99 THEN 1900 + year ELSE year
  IN IF day <= DaysInMonth(y, monthIndex) THEN JsDate(y, monthIndex, day)
     ELSE IF monthIndex = 11 THEN JsDate(y + 1, 0, day - DaysInMonth(y, monthIndex))
     ELSE JsDate(y, monthIndex + 1, day - DaysInMonth(y, monthIndex))

\* date.setMonth(m) for m from -1 to 12: the month index is taken modulo 12
\* with the year carried, the day of the month is kept, and a day past the
\* end of the new month runs over into the month after it
setMonth(d, m) ==
  LET y == d.fullYear + (m \div 12)
      mi == m % 12
  IN IF d.date <= DaysInMonth(y, mi) THEN JsDate(y, mi, d.date)
     ELSE IF mi = 11 THEN JsDate(y + 1, 0, d.date - DaysInMonth(y, mi))
     ELSE JsDate(y, mi + 1, d.date - DaysInMonth(y, mi))

\* export function dateToKey(date: Date): DateKey
types_dateToKey(d) == [year |-> d.fullYear, month |-> d.month + 1, day |-> d.date]

\* export function keyToDate(key: DateKey): Date
keyToDate(key) == NewDate(key.year, key.month - 1, key.day)

\* the dates the date functions are applied to: the valid calendar dates
\* with these years, months and days
ProbeYears == {50, 99, 100, 999, 1000, 2024}
ProbeMonths == {1, 2, 11, 12}
ProbeDays == {1, 2, 11, 12, 29, 31}
ProbeDates ==
  {k \in [year : ProbeYears, month : ProbeMonths, day : ProbeDays] :
     k.day <= DaysInMonth(k.year, k.month - 1)}

NoJsDate == JsDate(0, 0, 0)

\* no date function has been applied
NoProbe ==
  [pc |-> "none", a |-> NoDate, b |-> NoDate, keyA |-> <<>>, keyB |-> <<>>,
   key |-> NoDate, date |-> NoJsDate, back |-> NoDate]

\* the Calendar is closed
NoCalendar == [selectedDate |-> NoJsDate, currentMonth |-> NoJsDate, clicks |-> <<>>]

\* the App is not mounted
NoApp == [mounted |-> FALSE]

Unmounted == calendar = NoCalendar /\ app = NoApp /\ log = <<>>

\* ------------------------------------------------------- the fallback Map
MapHas(m, k) == \E i \in 1..Len(m) : m[i].key = k
MapGet(m, k) == m[CHOOSE i \in 1..Len(m) : m[i].key = k].data
MapSet_AppendAlways(m, k, v) == Append(m, [key |-> k, data |-> v])
MapSet(m, k, v) ==
  IF MapHas(m, k)
  THEN [i \in 1..Len(m) |-> IF m[i].key = k THEN [key |-> k, data |-> v] ELSE m[i]]
  ELSE Append(m, [key |-> k, data |-> v])
IsNotKey(e, k) == e.key # k
MapDelete(m, k) == SelectSeq(m, LAMBDA e : IsNotKey(e, k))
MapValues(m) == [i \in 1..Len(m) |-> m[i].data]

\* -------------------------------------------------------- the object store
StorePut_AddOnly(s, k, v) ==
  [x \in (DOMAIN s) \cup {k} |-> IF x \in DOMAIN s THEN s[x] ELSE v]
StorePut(s, k, v) == [x \in (DOMAIN s) \cup {k} |-> IF x = k THEN v ELSE s[x]]
StoreDelete_Noop(s, k) == s
StoreDelete(s, k) == [x \in (DOMAIN s) \ {k} |-> s[x]]

RECURSIVE SortedKeys(_)
SortedKeys(S) ==
  IF S = {} THEN <<>>
  ELSE LET k == CHOOSE x \in S : \A y \in S \ {x} : KeyLess(x, y)
       IN <<k>> \o SortedKeys(S \ {k})

\* store.getAll(): every value, in ascending key order
StoreGetAll(s) == LET ks == SortedKeys(DOMAIN s) IN [i \in 1..Len(ks) |-> s[ks[i]]]

\* ------------------------------------------------------------ list helpers
HasContentRow(row) == hasAnyMealData(row.meals)
FilterContent_All(rows) == rows
FilterContent(rows) == SelectSeq(rows, HasContentRow)
RowDates(rows) == [i \in 1..Len(rows) |-> rows[i].date]

RECURSIVE InsertByKey(_, _)
InsertByKey(sorted, row) ==
  IF sorted = <<>> THEN <<row>>
  ELSE IF KeyLess(dateToKey(row.date), dateToKey(Head(sorted).date))
       THEN <<row>> \o sorted
       ELSE <<Head(sorted)>> \o InsertByKey(Tail(sorted), row)

RECURSIVE sortByDateAsc(_)
sortByDateAsc(rows) ==
  IF rows = <<>> THEN <<>>
  ELSE InsertByKey(sortByDateAsc(SubSeq(rows, 1, Len(rows) - 1)), rows[Len(rows)])

\* ------------------------------------------------------------ notifyError
\* a failure condition the call has met (bookkeeping, not facade state)
Met(c, cond) == [c EXCEPT !.met = Append(@, cond)]

\* notifyError(error): console.error, then the callback if one is set.  uf is
\* the value of this.useFallback at the moment of the call.
notifyError_LogOnly(c, type, uf) == [c EXCEPT !.notified = Append(@, type)]
notifyError(c, type, uf) ==
  [c EXCEPT !.notified = Append(@, type),
            !.delivered = IF errorCallback
                          THEN Append(@, [type |-> type, useFallback |-> uf])
                          ELSE @]

Resolve(c, v) == [c EXCEPT !.pc = "done", !.outcome = "resolved", !.value = v]
Reject(c, e) == [c EXCEPT !.pc = "done", !.outcome = "rejected", !.error = e]

\* saveMealRecords: if (!this.hasAnyMealData(meals)) await deleteMealRecords
SaveRoutesToDelete_Never(meals) == FALSE
SaveRoutesToDelete(meals) == ~hasAnyMealData(meals)

\* transaction.onerror of saveMealRecords: the kind it reports
WriteErrorType_NoQuota(errName) == "SAVE_FAILED"
WriteErrorType(errName) ==
  IF errName = "QuotaExceededError" THEN "QUOTA_EXCEEDED" ELSE "SAVE_FAILED"

\* transaction.error?.name as the handler can read it
TxErrorNames == {"QuotaExceededError", "null"}

\* a save that was routed to deleteMealRecords runs as a delete
EffOp(c) == IF c.op = "save" /\ c.routed THEN "delete" ELSE c.op

IsRead(op) == op \in {"load", "dates", "all"}

FailedType_Load(op) == "LOAD_FAILED"
FailedType(op) ==
  CASE op = "save" -> "SAVE_FAILED"
    [] op = "delete" -> "DELETE_FAILED"
    [] OTHER -> "LOAD_FAILED"

DefaultValue(op) == IF op = "load" THEN getEmptyMealRecords ELSE <<>>

\* the onerror handler of a request and the catch block around transaction():
\* report, then resolve with the default (reads) or reject (writes)
FailRequest_Rejects(c, cond, type) ==
  Reject(notifyError(Met(c, cond), type, useFallback), type)
FailRequest(c, cond, type) ==
  LET n == notifyError(Met(c, cond), type, useFallback)
  IN IF IsRead(EffOp(c)) THEN Resolve(n, DefaultValue(EffOp(c))) ELSE Reject(n, type)

\* ------------------------------------------------------------------ init()
\* the synchronous part of init(): pc becomes "initDone" when the promise is
\* already resolved, "opening" when the open request is outstanding
InitSeg_KeepsFlag(c, uf, openThrows) ==
  IF ~supported
  THEN [c |-> [notifyError(Met(c, "unsupported"), "NOT_SUPPORTED", uf) EXCEPT !.pc = "initDone"],
        uf |-> uf]
  ELSE IF openThrows
  THEN [c |-> [notifyError(Met(c, "openThrow"), "DB_OPEN_FAILED", uf) EXCEPT !.pc = "initDone"],
        uf |-> uf]
  ELSE [c |-> [c EXCEPT !.pc = "opening"], uf |-> uf]
InitSeg(c, uf, openThrows) ==
  IF ~supported
  THEN [c |-> [notifyError(Met(c, "unsupported"), "NOT_SUPPORTED", TRUE) EXCEPT !.pc = "initDone"],
        uf |-> TRUE]
  ELSE IF openThrows
  THEN [c |-> [notifyError(Met(c, "openThrow"), "DB_OPEN_FAILED", TRUE) EXCEPT !.pc = "initDone"],
        uf |-> TRUE]
  ELSE [c |-> [c EXCEPT !.pc = "opening"], uf |-> uf]

\* ------------------------------------------------- the fallback branches
FallbackOp(c, fb) ==
  LET key == dateToKey(c.date)
      f == [c EXCEPT !.backend = "fallback", !.hadEntry = MapHas(fb, key),
                     !.prior = IF MapHas(fb, key) THEN MapGet(fb, key).meals
                               ELSE getEmptyMealRecords]
      op == EffOp(c)
  IN CASE op = "save" ->
            [c |-> Resolve(f, "undefined"),
             fb |-> MapSet(fb, key, [date |-> c.date, meals |-> c.meals])]
       [] op = "load" ->
            [c |-> Resolve(f, IF MapHas(fb, key) THEN MapGet(fb, key).meals
                              ELSE getEmptyMealRecords),
             fb |-> fb]
       [] op = "delete" ->
            [c |-> Resolve(f, "undefined"), fb |-> MapDelete(fb, key)]
       [] op = "dates" ->
            [c |-> Resolve(f, RowDates(FilterContent(MapValues(fb)))), fb |-> fb]
       [] op = "all" ->
            [c |-> Resolve(f, sortByDateAsc(FilterContent(MapValues(fb)))), fb |-> fb]

\* what the object store s holds for the date of the call when the database
\* answers it (bookkeeping, not facade state)
Seen(c, s, sig) ==
  LET key == dateToKey(c.date)
  IN [c EXCEPT !.signal = sig,
               !.hadEntry = key \in DOMAIN s,
               !.prior = IF key \in DOMAIN s THEN s[key].meals ELSE getEmptyMealRecords]

\* ------------------------------------ new Promise(... this.db!.transaction
TxStart(c, txThrows) ==
  IF txThrows
  THEN FailRequest(Seen([c EXCEPT !.backend = "idb"], idbStore, "throw"),
                   "txThrow", FailedType(EffOp(c)))
  ELSE [c EXCEPT !.backend = "idb", !.pc = "request"]

\* transaction.oncomplete of the put, request.onsuccess of get, delete and
\* getAll: the value the promise resolves with
OnSuccess(c, s) ==
  LET key == dateToKey(c.date)
      op == EffOp(c)
  IN CASE op = "save" -> Resolve(c, "undefined")
       [] op = "load" ->
            Resolve(c, IF key \in DOMAIN s THEN s[key].meals ELSE getEmptyMealRecords)
       [] op = "delete" -> Resolve(c, "undefined")
       [] op = "dates" -> Resolve(c, RowDates(FilterContent(StoreGetAll(s))))
       [] op = "all" -> Resolve(c, sortByDateAsc(FilterContent(StoreGetAll(s))))

\* the object store after the put / delete of the call has been carried out
StoreAfter_Merge(c, s) ==
  LET key == dateToKey(c.date)
      op == EffOp(c)
      merged == [t \in MealType |->
                   [c.meals[t] EXCEPT !.items = s[key].meals[t].items \o @]]
  IN CASE op = "save" ->
            StorePut(s, key, [date |-> c.date,
                              meals |-> IF key \in DOMAIN s THEN merged ELSE c.meals])
       [] op = "delete" -> StoreDelete(s, key)
       [] OTHER -> s
StoreAfter(c, s) ==
  LET key == dateToKey(c.date)
      op == EffOp(c)
  IN CASE op = "save" -> StorePut(s, key, [date |-> c.date, meals |-> c.meals])
       [] op = "delete" -> StoreDelete(s, key)
       [] OTHER -> s

\* a method from its useFallback test on, run up to its first suspension
AccessSeg(c, uf, fb, openThrows, txThrows) ==
  IF uf
  THEN LET r == FallbackOp(c, fb) IN [c |-> r.c, uf |-> uf, fb |-> r.fb]
  ELSE IF ~db
  THEN LET r == InitSeg([c EXCEPT !.lazy = TRUE], uf, openThrows)
       IN [c |-> IF r.c.pc = "initDone" THEN [r.c EXCEPT !.pc = "cont"] ELSE r.c,
           uf |-> r.uf, fb |-> fb]
  ELSE [c |-> TxStart(c, txThrows), uf |-> uf, fb |-> fb]

\* the continuation after `await this.init()`
ContSeg(c, fb, txThrows) ==
  IF ~db
  THEN LET r == FallbackOp(c, fb) IN [c |-> r.c, fb |-> r.fb]
  ELSE [c |-> TxStart(c, txThrows), fb |-> fb]

\* ---------------------------------------------------------- bookkeeping
RemoveAt(q, i) == SubSeq(q, 1, i - 1) \o SubSeq(q, i + 1, Len(q))

\* a call that has run a step: it leaves `pending` when it has settled
Issued(c) ==
  /\ ncalls' = ncalls + 1
  /\ IF c.pc = "done"
     THEN last' = c /\ pending' = pending
     ELSE last' = last /\ pending' = Append(pending, c)

Stepped(i, c) ==
  /\ ncalls' = ncalls
  /\ IF c.pc = "done"
     THEN last' = c /\ pending' = RemoveAt(pending, i)
     ELSE last' = last /\ pending' = [pending EXCEPT ![i] = c]

\* the object store survives the session: it is empty on first use, or holds
\* what an earlier session saved
PersistedStores ==
  {<<>>, StorePut(<<>>, dateToKey(TestDates[1]), [date |-> TestDates[1], meals |-> MealsA])}

\* ---------------------------------------------------------------- actions
\* a StorageService as constructed, with no call made to it
Constructed ==
  /\ db = FALSE
  /\ useFallback = FALSE
  /\ fallbackStorage = <<>>
  /\ errorCallback = FALSE
  /\ pending = <<>>
  /\ last = NoCall
  /\ ncalls = 0
  /\ twin = NoCall

Init ==
  /\ supported \in BOOLEAN
  /\ Constructed
  /\ idbStore \in (IF supported THEN PersistedStores ELSE {<<>>})
  /\ probe = NoProbe
  /\ Unmounted

setErrorCallback ==
  /\ ~errorCallback
  /\ errorCallback' = TRUE
  /\ UNCHANGED <<supported, db, useFallback, fallbackStorage, idbStore, pending,
                 last, ncalls>>
  /\ UNCHANGED others

\* init() is called
InitCalled ==
  /\ \E openThrows \in BOOLEAN :
       LET r == InitSeg(NewCall("init", NoDate, getEmptyMealRecords), useFallback, openThrows)
           c == IF r.c.pc = "initDone" THEN Resolve(r.c, "undefined") ELSE r.c
       IN /\ useFallback' = r.uf
          /\ Issued(c)
  /\ UNCHANGED <<supported, db, fallbackStorage, idbStore, errorCallback>>

CallInit == ncalls < MaxCalls /\ InitCalled /\ UNCHANGED others

\* a method other than init() is called with the call record c
AccessCalled(c) ==
  /\ \E openThrows \in BOOLEAN, txThrows \in BOOLEAN :
       LET r == AccessSeg(c, useFallback, fallbackStorage, openThrows, txThrows)
       IN /\ useFallback' = r.uf
          /\ fallbackStorage' = r.fb
          /\ Issued(r.c)
  /\ UNCHANGED <<supported, db, idbStore, errorCallback>>

CallAccess(c) == ncalls < MaxCalls /\ AccessCalled(c) /\ UNCHANGED others

saveMealRecords ==
  \E date \in Dates, meals \in InputMeals :
    CallAccess([NewCall("save", date, meals) EXCEPT !.routed = SaveRoutesToDelete(meals)])

loadMealRecords ==
  \E date \in Dates : CallAccess(NewCall("load", date, getEmptyMealRecords))

deleteMealRecords ==
  \E date \in Dates : CallAccess(NewCall("delete", date, getEmptyMealRecords))

getAllDatesWithData == CallAccess(NewCall("dates", NoDate, getEmptyMealRecords))

getAllMealData == CallAccess(NewCall("all", NoDate, getEmptyMealRecords))

\* request.onsuccess / request.onerror of indexedDB.open
OpenAnswered ==
  \E i \in 1..Len(pending), ok \in BOOLEAN :
    LET c == pending[i]
        n == IF ok THEN c
             ELSE notifyError(Met(c, "openError"), "DB_OPEN_FAILED", TRUE)
        d == IF c.op = "init" THEN Resolve(n, "undefined") ELSE [n EXCEPT !.pc = "cont"]
    IN /\ c.pc = "opening"
       /\ db' = IF ok THEN TRUE ELSE db
       /\ useFallback' = ~ok
       /\ Stepped(i, d)
       /\ UNCHANGED <<supported, fallbackStorage, idbStore, errorCallback>>

OpenEvent == OpenAnswered /\ UNCHANGED others

\* the method resumes after `await this.init()`
Resumed ==
  \E i \in 1..Len(pending), txThrows \in BOOLEAN :
    LET c == pending[i]
        r == ContSeg(c, fallbackStorage, txThrows)
    IN /\ c.pc = "cont"
       /\ fallbackStorage' = r.fb
       /\ Stepped(i, r.c)
       /\ UNCHANGED <<supported, db, useFallback, idbStore, errorCallback>>

Continue == Resumed /\ UNCHANGED others

\* the transaction of the put of saveMealRecords ends: oncomplete, onerror
\* (which reads transaction.error.name), or an abort event, for which no
\* handler is registered
WriteAnswered ==
  \E i \in 1..Len(pending), sig \in {"complete", "error", "abort"}, errName \in TxErrorNames :
    LET c == [Seen(pending[i], idbStore, sig) EXCEPT
                 !.errName = IF sig = "error" THEN errName ELSE "none"]
        type == WriteErrorType(errName)
    IN /\ pending[i].pc = "request"
       /\ EffOp(c) = "save"
       /\ idbStore' = IF sig = "complete" THEN StoreAfter(c, idbStore) ELSE idbStore
       /\ Stepped(i, CASE sig = "complete" -> OnSuccess(c, idbStore)
                       [] sig = "error" ->
                            Reject(notifyError(Met(c, "txError"), type, useFallback), type)
                       [] sig = "abort" -> [c EXCEPT !.pc = "aborted"])
       /\ UNCHANGED <<supported, db, useFallback, fallbackStorage, errorCallback>>

WriteEvent == WriteAnswered /\ UNCHANGED others

\* request.onsuccess / request.onerror of get, delete and getAll
RequestAnswered ==
  \E i \in 1..Len(pending), sig \in {"success", "error"} :
    LET c == Seen(pending[i], idbStore, sig)
        op == EffOp(c)
    IN /\ pending[i].pc = "request"
       /\ op # "save"
       /\ idbStore' = IF sig = "success" THEN StoreAfter(c, idbStore) ELSE idbStore
       /\ Stepped(i, IF sig = "error" THEN FailRequest(c, "requestError", FailedType(op))
                     ELSE OnSuccess(c, idbStore))
       /\ UNCHANGED <<supported, db, useFallback, fallbackStorage, errorCallback>>

RequestEvent == RequestAnswered /\ UNCHANGED others

\* the caller awaits every call before it makes the next one
Awaited == pending = <<>>

Next ==
  \/ setErrorCallback
  \/ Awaited /\ CallInit
  \/ Awaited /\ saveMealRecords
  \/ Awaited /\ loadMealRecords
  \/ Awaited /\ deleteMealRecords
  \/ Awaited /\ getAllDatesWithData
  \/ Awaited /\ getAllMealData
  \/ OpenEvent
  \/ Continue
  \/ WriteEvent
  \/ RequestEvent

Spec == Init /\ [][Next]_vars

\* ------------------------------------------- a session with its history
\* Awaited calls of init, saveMealRecords, loadMealRecords, deleteMealRecords
\* and getAllDatesWithData; every call that settles is appended to `log`.
Settled ==
  \/ ncalls' = ncalls /\ Len(pending') < Len(pending)
  \/ ncalls' = ncalls + 1 /\ Len(pending') = Len(pending)

Logged ==
  /\ log' = IF Settled THEN Append(log, last') ELSE log
  /\ UNCHANGED <<twin, probe, calendar, app>>

\* the dates of the session
SessionDates == {TestDates[1], TestDates[2]}

MayCall == Awaited /\ ncalls < MaxLongCalls

LongInit == MayCall /\ InitCalled /\ Logged

LongSave ==
  /\ MayCall
  /\ \E date \in SessionDates :
       AccessCalled([NewCall("save", date, MealsB) EXCEPT
                       !.routed = SaveRoutesToDelete(MealsB)])
  /\ Logged

LongLoad ==
  /\ MayCall
  /\ \E date \in SessionDates : AccessCalled(NewCall("load", date, getEmptyMealRecords))
  /\ Logged

LongDelete ==
  /\ MayCall
  /\ \E date \in SessionDates : AccessCalled(NewCall("delete", date, getEmptyMealRecords))
  /\ Logged

LongList ==
  /\ MayCall
  /\ AccessCalled(NewCall("dates", NoDate, getEmptyMealRecords))
  /\ Logged

LongOpenEvent == OpenAnswered /\ Logged

LongContinue == Resumed /\ Logged

LongWriteEvent == WriteAnswered /\ Logged

LongRequestEvent == RequestAnswered /\ Logged

NextLong ==
  \/ LongInit
  \/ LongSave
  \/ LongLoad
  \/ LongDelete
  \/ LongList
  \/ LongOpenEvent
  \/ LongContinue
  \/ LongWriteEvent
  \/ LongRequestEvent

SpecLong == Init /\ [][NextLong]_vars

\* ------------------------------------------- two saves issued together
\* saveMealRecords(d1, X) and saveMealRecords(d2, Y) are issued without
\* awaiting; once both have settled the two dates are loaded, awaited.
PairDates == <<TestDates[1], TestDates[2]>>
PairMeals == <<MealsB, MealsA>>

PairSave ==
  /\ ncalls < 2
  /\ AccessCalled([NewCall("save", PairDates[ncalls + 1], PairMeals[ncalls + 1]) EXCEPT
                     !.routed = SaveRoutesToDelete(PairMeals[ncalls + 1])])
  /\ Logged

PairLoad ==
  /\ ncalls >= 2
  /\ ncalls < MaxPairCalls
  /\ Awaited
  /\ \E i \in 1..2 : AccessCalled(NewCall("load", PairDates[i], getEmptyMealRecords))
  /\ Logged

NextPair ==
  \/ PairSave
  \/ PairLoad
  \/ LongOpenEvent
  \/ LongContinue
  \/ LongWriteEvent
  \/ LongRequestEvent

SpecPair == Init /\ [][NextPair]_vars

\* ------------------------------------------------------------- the App
\* The App component on top of the StorageService: its state selectedDate
\* and mealRecords, the refs isLoadingRef and saveTimeoutRef, the load effect
\* on [selectedDate] and the debounced save effect on [mealRecords,
\* selectedDate].  Effects run in the order they are declared; the cleanup
\* of the save effect clears the timer whenever one of its dependencies
\* changes.  datesWithData, which only feeds the calendar marks, is left out.
\* Kept beside the program state: loadedFor (the date argument of the load
\* that delivered mealRecords), edit (the last change of handleSaveMeal no
\* save call has carried yet), edited (the dates the user has edited) and
\* saved (the last saveMealRecords call the App made).
AppDates == {TestDates[1], TestDates[2]}

\* what earlier sessions left in the object store
AppStore ==
  StorePut(StorePut(<<>>, dateToKey(TestDates[1]), [date |-> TestDates[1], meals |-> MealsA]),
           dateToKey(TestDates[2]), [date |-> TestDates[2], meals |-> MealsB])

NoTimer == [date |-> NoDate, meals |-> getEmptyMealRecords, origin |-> NoDate]
NoEdit == [date |-> NoDate, record |-> MealRecord("LUNCH", <<>>, NoImage)]

\* the records the meal input screen hands to handleSaveMeal
EditedRecords == {MealRecord("LUNCH", <<Apple>>, NoImage)}

\* the App after its mount: the database is open, the records of today are
\* loaded and no timer is outstanding
InitApp ==
  /\ supported = TRUE
  /\ db = TRUE
  /\ useFallback = FALSE
  /\ fallbackStorage = <<>>
  /\ idbStore = AppStore
  /\ errorCallback = TRUE
  /\ pending = <<>>
  /\ last = NoCall
  /\ ncalls = 0
  /\ twin = NoCall
  /\ probe = NoProbe
  /\ calendar = NoCalendar
  /\ log = <<>>
  /\ app = [mounted |-> TRUE, selectedDate |-> TestDates[1], mealRecords |-> MealsA,
            loadedFor |-> TestDates[1], isLoading |-> FALSE, saveTimeout |-> NoTimer,
            edit |-> NoEdit, edited |-> {}, saved |-> NoTimer, events |-> 0]

\* the save effect, run after a render in which mealRecords or selectedDate
\* has changed: the cleanup of its last run clears the timer; it returns
\* at once while a load is under way and sets a new timer otherwise
SaveEffect(a) ==
  IF a.isLoading THEN [a EXCEPT !.saveTimeout = NoTimer]
  ELSE [a EXCEPT !.saveTimeout = [date |-> a.selectedDate, meals |-> a.mealRecords,
                                  origin |-> a.loadedFor]]

\* loadMealRecordsForDate after its await: setMealRecords(records), then
\* finally isLoadingRef.current = false, then the render and its save effect
LoadDone(a, c) ==
  SaveEffect([a EXCEPT !.mealRecords = c.value, !.loadedFor = c.date, !.isLoading = FALSE])

\* loadMealRecordsForDate up to its await, and past it when the load
\* has settled without waiting for an event
LoadStarted(a) == [a EXCEPT !.isLoading = TRUE]

AppUnchanged == UNCHANGED <<twin, probe, calendar, log>>

\* handleDateSelect / handleTodayClick: setSelectedDate, then the load effect
\* and the save effect of the next render
handleDateSelect ==
  /\ app.events < MaxAppEvents
  /\ \E date \in AppDates :
       /\ AccessCalled(NewCall("load", date, getEmptyMealRecords))
       /\ LET a == SaveEffect(LoadStarted([app EXCEPT !.selectedDate = date,
                                                       !.events = @ + 1]))
          IN app' = IF Settled THEN LoadDone(a, last') ELSE a
  /\ AppUnchanged

\* handleSaveMeal: setMealRecords(prev => ({...prev, [record.type]: record}))
\* and the save effect of the next render
handleSaveMeal ==
  /\ app.events < MaxAppEvents
  /\ \E record \in EditedRecords :
       app' = SaveEffect([app EXCEPT !.mealRecords[record.type] = record,
                                     !.edit = [date |-> app.selectedDate, record |-> record],
                                     !.edited = @ \cup {app.selectedDate},
                                     !.events = @ + 1])
  /\ UNCHANGED <<supported, db, useFallback, fallbackStorage, idbStore, errorCallback,
                 pending, last, ncalls>>
  /\ AppUnchanged

\* the timer of the save effect fires after 500 ms: saveMealRecordsForDate
\* calls storageService.saveMealRecords with the date and the records of
\* the render that set the timer
TimerFires ==
  /\ app.saveTimeout # NoTimer
  /\ LET t == app.saveTimeout
     IN /\ AccessCalled([NewCall("save", t.date, t.meals) EXCEPT
                           !.routed = SaveRoutesToDelete(t.meals)])
        /\ app' = [app EXCEPT !.saveTimeout = NoTimer,
                              !.saved = t,
                              !.edit = IF /\ @ # NoEdit
                                          /\ t.date = @.date
                                          /\ t.meals[@.record.type] = @.record
                                       THEN NoEdit ELSE @]
  /\ AppUnchanged

\* the request of a loadMealRecords call is answered
LoadAnswered ==
  /\ RequestAnswered
  /\ last'.op = "load"
  /\ app' = LoadDone(app, last')
  /\ AppUnchanged

\* the transaction or the delete request of a saveMealRecords call is answered
SaveAnswered ==
  /\ \/ WriteAnswered
     \/ RequestAnswered /\ last'.op = "save"
  /\ UNCHANGED app
  /\ AppUnchanged

NextApp ==
  \/ handleDateSelect
  \/ handleSaveMeal
  \/ TimerFires
  \/ LoadAnswered
  \/ SaveAnswered

SpecApp == InitApp /\ [][NextApp]_vars

\* --------------------------------------------- calls that are not awaited
\* The caller issues a call while earlier calls are still pending (the mount
\* effects of App start init() and loadMealRecords() in the same tick).
NextConc ==
  \/ setErrorCallback
  \/ CallInit
  \/ saveMealRecords
  \/ loadMealRecords
  \/ deleteMealRecords
  \/ getAllDatesWithData
  \/ getAllMealData
  \/ OpenEvent
  \/ Continue
  \/ WriteEvent
  \/ RequestEvent

SpecConc == Init /\ [][NextConc]_vars

\* ------------------------------------- a database written by earlier use
\* The facade opens the MealTrackerDB an earlier session left behind.  The
\* earlier saveMealRecords (services/storageService.ts) put every mapping it
\* was given, so the store can hold an entry without content; and nothing
\* limits the year of a DateKey to four digits.
LegacyDates ==
  << [year |-> 999, month |-> 12, day |-> 31],
     [year |-> 1000, month |-> 1, day |-> 1] >>

LegacyStore ==
  StorePut(
    StorePut(
      StorePut(<<>>, dateToKey(TestDates[1]),
               [date |-> TestDates[1], meals |-> getEmptyMealRecords]),
      dateToKey(LegacyDates[1]), [date |-> LegacyDates[1], meals |-> MealsA]),
    dateToKey(LegacyDates[2]), [date |-> LegacyDates[2], meals |-> MealsA])

InitPersisted ==
  /\ supported = TRUE
  /\ Constructed
  /\ idbStore = LegacyStore
  /\ probe = NoProbe
  /\ Unmounted

SpecPersisted == InitPersisted /\ [][Next]_vars

\* ------------------------------------------------- the date functions
\* The key function of the facade and the codec of types.ts, applied to
\* valid calendar dates; the facade is not used.
InitKeys ==
  /\ supported = TRUE
  /\ Constructed
  /\ idbStore = <<>>
  /\ \E a \in ProbeDates, b \in ProbeDates :
       probe = [NoProbe EXCEPT !.pc = "args", !.a = a, !.b = b]
  /\ Unmounted

\* this.dateToKey of two DateKeys
KeysOfPair ==
  /\ probe.pc = "args"
  /\ probe' = [probe EXCEPT !.pc = "keys", !.keyA = dateToKey(probe.a),
                            !.keyB = dateToKey(probe.b)]
  /\ UNCHANGED <<supported, db, useFallback, fallbackStorage, idbStore, errorCallback,
                 pending, last, ncalls, twin, calendar, app, log>>

\* dateToKey of the Date that has the calendar fields of probe.a, keyToDate
\* of that key, and dateToKey(keyToDate(probe.a))
Codec ==
  /\ probe.pc = "args"
  /\ probe.a = probe.b
  /\ LET d == JsDate(probe.a.year, probe.a.month - 1, probe.a.day)
     IN probe' = [probe EXCEPT !.pc = "codec", !.key = types_dateToKey(d),
                               !.date = keyToDate(types_dateToKey(d)),
                               !.back = types_dateToKey(keyToDate(probe.a))]
  /\ UNCHANGED <<supported, db, useFallback, fallbackStorage, idbStore, errorCallback,
                 pending, last, ncalls, twin, calendar, app, log>>

NextKeys == KeysOfPair \/ Codec

SpecKeys == InitKeys /\ [][NextKeys]_vars

\* ------------------------------------------------------- the Calendar
\* The Calendar is opened with a selected date; currentMonth starts as a
\* copy of it, day of the month included.
CalendarDates ==
  {d \in [fullYear : {2023, 2024}, month : 0..11, date : {1, 15, 28, 29, 30, 31}] :
     d.date <= DaysInMonth(d.fullYear, d.month)}

InitCalendar ==
  /\ supported = TRUE
  /\ Constructed
  /\ idbStore = <<>>
  /\ probe = NoProbe
  /\ app = NoApp
  /\ log = <<>>
  /\ \E d \in CalendarDates :
       calendar = [selectedDate |-> d, currentMonth |-> d, clicks |-> <<>>]

goToPreviousMonth ==
  /\ Len(calendar.clicks) < MaxClicks
  /\ calendar' = [calendar EXCEPT
                    !.currentMonth = setMonth(@, calendar.currentMonth.month - 1),
                    !.clicks = Append(@, "previous")]
  /\ UNCHANGED <<supported, db, useFallback, fallbackStorage, idbStore, errorCallback,
                 pending, last, ncalls, twin, probe, app, log>>

goToNextMonth ==
  /\ Len(calendar.clicks) < MaxClicks
  /\ calendar' = [calendar EXCEPT
                    !.currentMonth = setMonth(@, calendar.currentMonth.month + 1),
                    !.clicks = Append(@, "next")]
  /\ UNCHANGED <<supported, db, useFallback, fallbackStorage, idbStore, errorCallback,
                 pending, last, ncalls, twin, probe, app, log>>

NextCalendar == goToPreviousMonth \/ goToNextMonth

SpecCalendar == InitCalendar /\ [][NextCalendar]_vars

\* ------------------------------------------- two facades, the same calls
\* The same awaited calls are made to two StorageService instances after
\* init() has resolved on each.  On the first the database is unavailable:
\* useFallback is set, fallbackStorage is its Map and `last` its settled
\* call.  On the second the database is open and answers every request: db
\* is set, idbStore is its object store and `twin` its settled call.
InitEq ==
  /\ supported = TRUE
  /\ db = TRUE
  /\ useFallback = TRUE
  /\ fallbackStorage = <<>>
  /\ idbStore = <<>>
  /\ errorCallback = FALSE
  /\ pending = <<>>
  /\ last = NoCall
  /\ ncalls = 0
  /\ twin = NoCall
  /\ probe = NoProbe
  /\ Unmounted

BothFacades(c) ==
  /\ ncalls < MaxEqCalls
  /\ LET f == AccessSeg(c, TRUE, fallbackStorage, FALSE, FALSE)
         q == Seen(TxStart([c EXCEPT !.after = Brief(twin)], FALSE), idbStore,
                   IF EffOp(c) = "save" THEN "complete" ELSE "success")
     IN /\ fallbackStorage' = f.fb
        /\ last' = f.c
        /\ idbStore' = StoreAfter(q, idbStore)
        /\ twin' = OnSuccess(q, idbStore)
  /\ ncalls' = ncalls + 1
  /\ UNCHANGED <<supported, db, useFallback, errorCallback, pending, probe, calendar, app, log>>

BothSave ==
  \E date \in Dates, meals \in InputMeals \cup {MealsPhoto} :
    BothFacades([NewCall("save", date, meals) EXCEPT !.routed = SaveRoutesToDelete(meals)])

BothLoad == \E date \in Dates : BothFacades(NewCall("load", date, getEmptyMealRecords))

BothDelete == \E date \in Dates : BothFacades(NewCall("delete", date, getEmptyMealRecords))

BothDates == BothFacades(NewCall("dates", NoDate, getEmptyMealRecords))

BothAll == BothFacades(NewCall("all", NoDate, getEmptyMealRecords))

NextEq == BothSave \/ BothLoad \/ BothDelete \/ BothDates \/ BothAll

SpecEq == InitEq /\ [][NextEq]_vars

\* ------------------------------------------------------------------ claims
\* the all-empty mapping, written out: the 7 slots, no items, no image
IsAllEmpty(v) ==
  /\ DOMAIN v = MealType
  /\ \A t \in MealType : v[t].type = t /\ v[t].items = <<>> /\ v[t].image = NoImage

\* some slot has an item or an image string
HasContent(m) == \E t \in DOMAIN m : m[t].items # <<>> \/ m[t].image \notin {NoImage, ImageOf("")}

ReadFailed(c) == c.signal \in {"error", "throw"}

\* the call that settled last directly follows a resolved save of its own date
FollowsSave(c) ==
  /\ c.after.op = "save"
  /\ c.after.outcome = "resolved"
  /\ c.after.date = c.date

DeliveredTypes(c) == [i \in 1..Len(c.delivered) |-> c.delivered[i].type]

C3_EmptyDefault ==
  (last.op = "load" /\ ~last.hadEntry)
    => last.outcome = "resolved" /\ IsAllEmpty(last.value)

C3_Witness ==
  /\ last.op = "load" /\ ~last.hadEntry /\ last.signal = "success"
  /\ last.date = TestDates[2]
  /\ DOMAIN idbStore # {}

\* C4: after a resolved delete of a date, a load of that date returns the
\* all-empty default and getAllDatesWithData does not list the date; a delete
\* of a date without an entry resolves and reports no delete failure unless
\* the database fails the request.
C4_DeleteThenLoad ==
  /\ (last.op = "load" /\ last.after.op = "delete" /\ last.after.outcome = "resolved"
        /\ last.after.date = last.date)
       => IsAllEmpty(last.value)
  /\ (last.op = "dates" /\ last.after.op = "delete" /\ last.after.outcome = "resolved")
       => \A i \in 1..Len(last.value) : last.value[i] # last.after.date
  /\ (last.op = "delete" /\ ~last.hadEntry /\ ~ReadFailed(last))
       => last.outcome = "resolved" /\ \A i \in 1..Len(last.notified) : last.notified[i] # "DELETE_FAILED"

C4_Witness ==
  /\ last.op = "load" /\ last.after.op = "delete" /\ last.after.outcome = "resolved"
  /\ last.after.date = last.date /\ last.after.hadEntry
  /\ last.backend = "idb" /\ last.signal = "success"
  /\ IsAllEmpty(last.value)

\* C5: init() always resolves; without IndexedDB it sets useFallback and
\* reports NOT_SUPPORTED, after a failed or throwing open it sets useFallback
\* and reports DB_OPEN_FAILED; the call that follows a failed init() is served
\* by the fallback map and resolves.
C5_InitNeverRejects ==
  /\ last.op = "init" =>
       /\ last.outcome = "resolved"
       /\ ~supported => useFallback /\ last.notified = <<"NOT_SUPPORTED">>
       /\ (supported /\ last.met # <<>>) => useFallback /\ last.notified = <<"DB_OPEN_FAILED">>
       /\ (supported /\ last.met = <<>>) => db /\ last.notified = <<>>
  /\ \A i \in 1..Len(pending) : pending[i].op = "init" => pending[i].pc = "opening"
  /\ (last.op \notin {"none", "init"} /\ last.after.op = "init" /\ ~last.after.clean)
       => last.backend = "fallback" /\ last.outcome = "resolved"

C5_Witness ==
  /\ supported
  /\ last.op = "load" /\ last.after.op = "init" /\ ~last.after.clean
  /\ last.backend = "fallback" /\ last.outcome = "resolved"

\* C6 (as stated): once useFallback is true it stays true.
C6_FallbackOneWay == [][useFallback => useFallback']_vars

\* C7: a read (load, getAllDatesWithData, getAllMealData) never rejects; when
\* its request fails or its transaction cannot be created it resolves with
\* the all-empty default / the empty list and has reported LOAD_FAILED.
C7_ReadsNeverReject ==
  IsRead(last.op) =>
    /\ last.outcome = "resolved"
    /\ ReadFailed(last) =>
         /\ IF last.op = "load" THEN IsAllEmpty(last.value) ELSE last.value = <<>>
         /\ last.notified # <<>> /\ last.notified[Len(last.notified)] = "LOAD_FAILED"
         /\ last.cbAtIssue => \E i \in 1..Len(last.delivered) : last.delivered[i].type = "LOAD_FAILED"

C7_Witness ==
  /\ last.op = "all" /\ last.signal = "error" /\ last.cbAtIssue
  /\ DOMAIN idbStore # {}
  /\ last.value = <<>>

KindOf(op, cond, errName) ==
  CASE cond = "unsupported" -> "NOT_SUPPORTED"
    [] cond \in {"openThrow", "openError"} -> "DB_OPEN_FAILED"
    [] cond = "txError" ->
         IF errName = "QuotaExceededError" THEN "QUOTA_EXCEEDED" ELSE "SAVE_FAILED"
    [] cond \in {"txThrow", "requestError"} /\ op = "save" -> "SAVE_FAILED"
    [] cond \in {"txThrow", "requestError"} /\ op = "delete" -> "DELETE_FAILED"
    [] OTHER -> "LOAD_FAILED"

AllDelivered(c) ==
  c.cbAtIssue =>
    /\ Len(c.delivered) = Len(c.met)
    /\ \A i \in 1..Len(c.met) :
         c.delivered[i].type =
           KindOf(IF c.op = "save" /\ ~HasContent(c.meals) THEN "delete" ELSE c.op,
                  c.met[i], c.errName)

Range(q) == {q[i] : i \in 1..Len(q)}

StoredMeals(c, date) ==
  IF c.backend = "idb" THEN idbStore[dateToKey(date)].meals
  ELSE MapGet(fallbackStorage, dateToKey(date)).meals

DatesFollowSave ==
  /\ last.op = "dates" /\ ~ReadFailed(last)
  /\ last.after.op = "save" /\ last.after.outcome = "resolved"

\* C13 (as stated): getAllDatesWithData lists the date of the save that
\* resolved just before it, whatever meals were saved, a mapping without
\* items included.
C13_EverySavedDateListed ==
  DatesFollowSave => last.after.date \in Range(last.value)

\* a is an earlier calendar date than b
DateBefore(a, b) ==
  \/ a.year < b.year
  \/ a.year = b.year /\ a.month < b.month
  \/ a.year = b.year /\ a.month = b.month /\ a.day < b.day

\* C14 (as stated): in the list getAllMealData returns, the date of every
\* record is an earlier calendar date than the date of the record after it.
C14_Chronological ==
  last.op = "all"
    => \A i \in 1..(Len(last.value) - 1) :
         DateBefore(last.value[i].date, last.value[i + 1].date)

\* C15: two valid DateKeys have the same canonical key string if and only
\* if their year, month and day are equal.
C15_KeyInjective ==
  probe.pc = "keys" => (probe.keyA = probe.keyB <=> probe.a = probe.b)

C15_Witness ==
  /\ probe.pc = "keys"
  /\ probe.a = [year |-> 2024, month |-> 1, day |-> 11]
  /\ probe.b = [year |-> 2024, month |-> 11, day |-> 1]
  /\ probe.keyA # probe.keyB

\* C16 (as stated): for a valid calendar date d, keyToDate(dateToKey(d)) has
\* the year, month and day of d; for a valid DateKey k,
\* dateToKey(keyToDate(k)) = k.
C16_CodecRoundTrip ==
  probe.pc = "codec" =>
    /\ probe.date = JsDate(probe.a.year, probe.a.month - 1, probe.a.day)
    /\ probe.back = probe.a

\* C17 (as stated): no open request is outstanding while the connection is
\* open: a call of init() on an open connection issues none.
C17_NoOpenWhenOpen ==
  \A i \in 1..Len(pending) : pending[i].pc = "opening" => ~db

\* the pending calls whose open request is outstanding
Opening == {i \in 1..Len(pending) : pending[i].pc = "opening"}

\* C18 (as stated): at most one open request is outstanding at any time.
C18_SingleOpenInFlight == Cardinality(Opening) <= 1

\* C19: a load that directly follows a save of meals with content over an
\* existing entry of the same date returns exactly the saved meals if the
\* save resolved, and exactly the meals of the entry as it was if the save
\* rejected (SAVE_FAILED or QUOTA_EXCEEDED).
C19_AllOrNothing ==
  (/\ last.op = "load" /\ ~ReadFailed(last)
   /\ last.after.op = "save" /\ last.after.date = last.date
   /\ last.after.hadEntry /\ HasContent(last.after.meals))
    => /\ last.after.outcome = "resolved" => last.value = last.after.meals
       /\ last.after.outcome = "rejected" => last.value = last.after.prior

C19_Witness ==
  /\ last.op = "load" /\ last.signal = "success"
  /\ last.after.op = "save" /\ last.after.date = last.date
  /\ last.after.outcome = "rejected"
  /\ last.after.hadEntry /\ last.after.prior = MealsA /\ last.after.meals = MealsB
  /\ last.value = MealsA

\* the entry of the store used by the settled call c, for the date of c
HasEntry(c) ==
  IF c.backend = "idb" THEN dateToKey(c.date) \in DOMAIN idbStore
  ELSE MapHas(fallbackStorage, dateToKey(c.date))

EntryMeals(c) ==
  IF c.backend = "idb" THEN idbStore[dateToKey(c.date)].meals
  ELSE MapGet(fallbackStorage, dateToKey(c.date)).meals

\* some slot has an item or an image that is not undefined
HasItemsOrImage(m) == \E t \in DOMAIN m : m[t].items # <<>> \/ m[t].image # NoImage

\* a resolved save c has written its meals if `content`, and has otherwise
\* been carried out as a delete
SavedIff(c, content) ==
  (c.op = "save" /\ c.outcome = "resolved")
    => IF content
       THEN ~c.routed /\ HasEntry(c) /\ EntryMeals(c) = c.meals
       ELSE c.routed /\ ~HasEntry(c)

MonthOf(d) == [year |-> d.fullYear, month |-> d.month]

\* the month before the month of the Date d
MonthBefore(d) ==
  IF d.month = 0 THEN [year |-> d.fullYear - 1, month |-> 11]
  ELSE [year |-> d.fullYear, month |-> d.month - 1]

\* C21 (as stated): after one click on previous month the Calendar displays
\* the month before the month it was opened with, and after previous month
\* then next month it displays the month it was opened with, whatever the
\* day of the selected date.
C21_NavigationRoundTrip ==
  /\ calendar.clicks = <<"previous">>
       => MonthOf(calendar.currentMonth) = MonthBefore(calendar.selectedDate)
  /\ calendar.clicks = <<"previous", "next">>
       => MonthOf(calendar.currentMonth) = MonthOf(calendar.selectedDate)

\* the open request that the call made before it could access a store failed
LazyOpenFailed(c) ==
  /\ c.op # "init" /\ c.lazy
  /\ \E i \in 1..Len(c.met) : c.met[i] \in {"openError", "openThrow"}

\* C22 (as stated): a save, load, delete or list call that finds no
\* connection and the flag false opens the database first; when that open
\* fails the call is served by the fallback map, and so is every save, load,
\* delete and list call that settles after it.
C22_LazyOpenFallsBackForGood ==
  \A i \in 1..Len(log) :
    LazyOpenFailed(log[i])
      => /\ log[i].backend = "fallback"
         /\ \A j \in (i + 1)..Len(log) : log[j].op # "init" => log[j].backend = "fallback"

\* the resolved writes (save, delete) of the date of log[j] that settled before it
WritesBefore(j) ==
  {i \in 1..(j - 1) : /\ log[i].op \in {"save", "delete"}
                       /\ log[i].outcome = "resolved"
                       /\ log[i].date = log[j].date}

LastWriteBefore(j) == CHOOSE i \in WritesBefore(j) : \A k \in WritesBefore(j) : k <= i

\* C27 (as stated): a load whose read the store answers, of a date whose
\* last resolved write was a save of meals with content, returns those
\* meals, whatever init() calls were made in between.
C27_ReadYourWrites ==
  \A j \in 1..Len(log) :
    (log[j].op = "load" /\ ~ReadFailed(log[j]) /\ WritesBefore(j) # {})
      => LET w == log[LastWriteBefore(j)]
         IN (w.op = "save" /\ HasContent(w.meals)) => log[j].value = w.meals

\* C26 (as stated): in every state the fallback flag is true only if no open
\* connection is held.
C26_FallbackHoldsNoConnection == useFallback => ~db

\* the flag was still false at every delivery of an open failure to the callback
FlagUnsetAtDelivery(c) ==
  \A i \in 1..Len(c.delivered) :
    c.delivered[i].type \in {"NOT_SUPPORTED", "DB_OPEN_FAILED"} => ~c.delivered[i].useFallback

\* C25 (as stated): the error callback is invoked before the recovery
\* decision: at the moment it receives NOT_SUPPORTED or DB_OPEN_FAILED the
\* fallback flag has not yet been set.
C25_CallbackBeforeRecovery ==
  /\ FlagUnsetAtDelivery(last)
  /\ \A i \in 1..Len(pending) : FlagUnsetAtDelivery(pending[i])

\* the call waits for an event that one of its handlers will receive
CanSettle(c) == c.pc \in {"opening", "cont", "request"}

\* C24 (as stated, in its finite form): every issued call settles, whatever
\* the database signals for its request and its transaction: no issued call
\* is ever left with its promise pending and no handler that could settle it.
C24_EveryCallSettles == \A i \in 1..Len(pending) : CanSettle(pending[i])

\* C23 (as stated): saveMealRecords(d1, X) and saveMealRecords(d2, Y) issued
\* without awaiting do not interfere: once both have resolved, a load of d1
\* that the store answers returns X and a load of d2 returns Y.
C23_SavesDoNotInterfere ==
  \A j \in 3..Len(log) :
    (/\ log[1].outcome = "resolved"
     /\ log[2].outcome = "resolved"
     /\ log[j].op = "load"
     /\ ~ReadFailed(log[j]))
      => \A i \in 1..2 : log[j].date = PairDates[i] => log[j].value = PairMeals[i]

\* the timer of the save effect carries the last change of handleSaveMeal
EditHeld ==
  /\ app.saveTimeout # NoTimer
  /\ app.saveTimeout.date = app.edit.date
  /\ app.saveTimeout.meals[app.edit.record.type] = app.edit.record

\* C28 (as stated, in its finite form): no edit is lost by the debounce: a
\* change made by handleSaveMeal while date D is selected, until a
\* saveMealRecords call for D has carried it, is held by the save timer for
\* D, also when the user selects another date before the timer fires.
C28_NoEditLost == (app.mounted /\ app.edit # NoEdit) => EditHeld

\* C29 (as stated): every saveMealRecords(D, R) call of the App carries
\* records R that were loaded for D (and edited since or not).
C29_SavesUnderOwnDate ==
  (app.mounted /\ app.saved # NoTimer) => app.saved.origin = app.saved.date

\* C30 (as stated): the stored record of a date changes only after a user
\* edit of that date; in particular a load that fails and resolves the
\* all-empty default does not lead to its deletion.
C30_StoreChangesOnlyByEdit ==
  app.mounted =>
    \A d \in AppDates \ app.edited :
      /\ dateToKey(d) \in DOMAIN idbStore
      /\ idbStore[dateToKey(d)] = AppStore[dateToKey(d)]

====
